---- MODULE Spec2Model ----
(***************************************************************************)
(* artichat: the room session of src/main.rs (struct App, create_room,     *)
(* join_room, run, handle_events, handle_key_event) as a state machine.    *)
(* Strings are sequences of code points, datagrams are sequences of bytes. *)
(* utils.rs (generate_aesgcm, encrypt, decrypt) is not part of the sources *)
(* at hand; it is modelled from sections 4.1 and 4.3 of the specification. *)
(***************************************************************************)
EXTENDS Integers, Sequences, FiniteSets, TLC

VARIABLES pc, username, roomkey, roombytes, cipher, roomusers, history,
          socket, input, showkey, showusers, exit, sent, decrypted,
          entered

vars == <<pc, username, roomkey, roombytes, cipher, roomusers, history,
          socket, input, showkey, showusers, exit, sent, decrypted,
          entered>>

(***************************************************************************)
(* Bounds of the model.                                                    *)
(***************************************************************************)
\* most text bytes, message frames and history lines the sessions hold in all
MaxLoad == 3

(***************************************************************************)
(* Program constants.                                                      *)
(***************************************************************************)
\* roomkey.as_bytes()[..32]
TagLen == 32
\* if size < 12
PresenceLimit == 12
\* let mut buffer = [0; 1024]
BufferSize == 1024
\* 96-bit nonce of the AEAD scheme
NonceSize == 12
\* authentication tag of the AEAD scheme
TagSize == 16
\* the creator's fixed local port
CreatorPort == 9090
\* the joiner's default port
DefaultPort == 9191

Sessions == {"creator", "joiner"}

(***************************************************************************)
(* Small helpers on sequences.                                             *)
(***************************************************************************)
Min(a, b) == IF a < b THEN a ELSE b

Take(s, n) == SubSeq(s, 1, Min(n, Len(s)))

Drop(s, n) == SubSeq(s, n + 1, Len(s))

Const(n, b) == [i \in 1..n |-> b]

(***************************************************************************)
(* UTF-8: String::as_bytes and String::from_utf8.                          *)
(***************************************************************************)
Utf8Char(c) ==
    IF c < 128 THEN <<c>>
    ELSE IF c < 2048 THEN <<192 + (c \div 64), 128 + (c % 64)>>
    ELSE IF c < 65536 THEN
        <<224 + (c \div 4096), 128 + ((c \div 64) % 64), 128 + (c % 64)>>
    ELSE <<240 + (c \div 262144), 128 + ((c \div 4096) % 64),
           128 + ((c \div 64) % 64), 128 + (c % 64)>>

RECURSIVE as_bytes(_)
as_bytes(str) ==
    IF str = <<>> THEN <<>> ELSE Utf8Char(Head(str)) \o as_bytes(Tail(str))

IsCont(b) == b >= 128 /\ b < 192

\* the number of bytes of the well-formed sequence b starts with, 0 if none
Utf8Width(b) ==
    IF b = <<>> THEN 0
    ELSE IF b[1] < 128 THEN 1
    ELSE IF b[1] >= 194 /\ b[1] < 224 /\ Len(b) >= 2 /\ IsCont(b[2]) THEN 2
    ELSE IF b[1] >= 224 /\ b[1] < 240 /\ Len(b) >= 3
            /\ IsCont(b[2]) /\ IsCont(b[3])
            /\ (b[1] = 224 => b[2] >= 160)
            /\ (b[1] = 237 => b[2] < 160) THEN 3
    ELSE IF b[1] >= 240 /\ b[1] < 245 /\ Len(b) >= 4
            /\ IsCont(b[2]) /\ IsCont(b[3]) /\ IsCont(b[4])
            /\ (b[1] = 240 => b[2] >= 144)
            /\ (b[1] = 244 => b[2] < 144) THEN 4
    ELSE 0

Utf8Point(b, w) ==
    IF w = 1 THEN b[1]
    ELSE IF w = 2 THEN (b[1] - 192) * 64 + (b[2] - 128)
    ELSE IF w = 3 THEN (b[1] - 224) * 4096 + (b[2] - 128) * 64 + (b[3] - 128)
    ELSE (b[1] - 240) * 262144 + (b[2] - 128) * 4096
         + (b[3] - 128) * 64 + (b[4] - 128)

RECURSIVE valid_utf8(_)
valid_utf8(b) ==
    IF b = <<>> THEN TRUE
    ELSE LET w == Utf8Width(b) IN w > 0 /\ valid_utf8(Drop(b, w))

RECURSIVE decode_utf8(_)
decode_utf8(b) ==
    IF b = <<>> THEN <<>>
    ELSE LET w == Utf8Width(b) IN <<Utf8Point(b, w)>> \o decode_utf8(Drop(b, w))

\* String::from_utf8: Ok(string) or Err
from_utf8(b) ==
    IF valid_utf8(b) THEN [ok |-> TRUE, str |-> decode_utf8(b)]
    ELSE [ok |-> FALSE, str |-> <<>>]

(***************************************************************************)
(* str::split_once('|'): the parts around the first '|', or None.          *)
(***************************************************************************)
Pipe == 124

RECURSIVE FirstPipe(_, _)
FirstPipe(str, i) ==
    IF i > Len(str) THEN 0
    ELSE IF str[i] = Pipe THEN i ELSE FirstPipe(str, i + 1)

RECURSIVE LastPipe(_, _)
LastPipe(str, i) ==
    IF i = 0 THEN 0
    ELSE IF str[i] = Pipe THEN i ELSE LastPipe(str, i - 1)

\* the split at the last '|' instead of the first
rsplit_once(str) ==
    LET i == LastPipe(str, Len(str)) IN
    IF i = 0 THEN [some |-> FALSE, left |-> <<>>, right |-> <<>>]
    ELSE [some |-> TRUE, left |-> SubSeq(str, 1, i - 1), right |-> Drop(str, i)]

split_once(str) ==
    LET i == FirstPipe(str, 1) IN
    IF i = 0 THEN [some |-> FALSE, left |-> <<>>, right |-> <<>>]
    ELSE [some |-> TRUE, left |-> SubSeq(str, 1, i - 1), right |-> Drop(str, i)]

(***************************************************************************)
(* utils.rs, modelled from the specification (4.1 KeyDerivation and 4.3    *)
(* CipherEngine).  The AEAD is a keyed stream cipher with a 16-byte tag    *)
(* over key, nonce and ciphertext: a frame opens only under the key and    *)
(* nonce it was sealed with, and any change of one byte breaks the tag.    *)
(***************************************************************************)
\* the 32 bytes of key material of a room key of at least 32 bytes
generate_aesgcm(key) == Take(as_bytes(key), TagLen)

KeyStream(k, n, i) ==
    (k[((i - 1) % Len(k)) + 1] + n[((i - 1) % NonceSize) + 1] + i) % 256

Seal(k, n, pt) == [i \in 1..Len(pt) |-> (pt[i] + KeyStream(k, n, i)) % 256]

Open(k, n, ct) ==
    [i \in 1..Len(ct) |-> (ct[i] + 256 - KeyStream(k, n, i)) % 256]

RECURSIVE Weighted(_, _, _)
Weighted(ct, i, j) ==
    IF i > Len(ct) THEN 0 ELSE ((i + j) * ct[i] + Weighted(ct, i + 1, j)) % 256

AuthTag(k, n, ct) ==
    [j \in 1..TagSize |->
        (k[((j - 1) % Len(k)) + 1] + n[((j - 1) % NonceSize) + 1]
         + Len(ct) + Weighted(ct, 1, j)) % 256]

\* encrypt: nonce || ciphertext || tag, under a nonce drawn by the caller
encrypt(k, n, plaintext) ==
    LET ct == Seal(k, n, as_bytes(plaintext)) IN n \o ct \o AuthTag(k, n, ct)

\* decrypt: Ok(plaintext) or Err(Malformed | AuthenticationFailed)
decrypt(k, data) ==
    IF Len(data) < NonceSize THEN
        [ok |-> FALSE, err |-> "Malformed", str |-> <<>>]
    ELSE IF Len(data) < NonceSize + TagSize THEN
        [ok |-> FALSE, err |-> "AuthenticationFailed", str |-> <<>>]
    ELSE
        LET n == Take(data, NonceSize)
            ct == SubSeq(data, NonceSize + 1, Len(data) - TagSize)
            tag == Drop(data, Len(data) - TagSize)
            pt == from_utf8(Open(k, n, ct))
        IN  IF tag = AuthTag(k, n, ct) /\ pt.ok THEN
                [ok |-> TRUE, err |-> "", str |-> pt.str]
            ELSE [ok |-> FALSE, err |-> "AuthenticationFailed", str |-> <<>>]

(***************************************************************************)
(* The datagrams of the send paths: run (presence) and the Enter arm of    *)
(* handle_key_event (message).                                             *)
(***************************************************************************)
PresenceFrame(tag, name) == tag \o as_bytes(name)

MessagePlaintext(name, text) == name \o <<Pipe>> \o text

MessageFrame(tag, k, n, name, text) ==
    tag \o encrypt(k, n, MessagePlaintext(name, text))

(***************************************************************************)
(* The relay at 127.0.0.1:9595 is not part of the program.  The receive    *)
(* path takes the whole datagram as a name or as nonce || ciphertext, so   *)
(* the relay it talks to hands on what follows the 32-byte routing tag,    *)
(* to the sessions of that tag.                                            *)
(***************************************************************************)
RelayTag(d) == Take(d, TagLen)

RelayPayload(d) == Drop(d, TagLen)

\* recv_from into the 1024-byte buffer: a longer datagram is cut
recv_from(d) == Take(d, BufferSize)

(***************************************************************************)
(* Inputs: display names, room keys, nonces, keys of the keyboard and the  *)
(* datagrams the network can hand to a session.                            *)
(***************************************************************************)
Alice == <<97, 108, 105, 99, 101>>
\* "bob" with an acute accent on the o: four bytes
Bob == <<98, 243, 98>>
\* "a|b": a display name holding the separator
PipeName == <<97, 124, 98>>

CreatorNames == {Alice, PipeName}
JoinerNames == {Bob}

Digits == <<48, 49, 50, 51, 52, 53, 54, 55, 56, 57, 97, 98, 99, 100, 101, 102>>
\* "0123456789abcdef0123456789abcdef"
KeyScenario == [i \in 1..32 |-> Digits[((i - 1) % 16) + 1]]
\* the same 32 bytes followed by one more
KeyLong == KeyScenario \o <<88>>
\* another room
KeyOther == [i \in 1..32 |-> Digits[((i + 2) % 16) + 1]]
\* 31 bytes
KeyShort == SubSeq(KeyScenario, 1, 31)

CreatorKeys == {KeyScenario, KeyShort}
JoinerKeys == {KeyScenario, KeyLong, KeyOther, KeyShort}

Nonces == {Const(NonceSize, 1), Const(NonceSize, 2)}

\* 'c', '|' and the two-byte 'e' with acute accent
Chars == {99, 124, 233}

KeyEvents ==
    { [code |-> c, ch |-> 0, ctrl |-> m] :
        c \in {"Enter", "Backspace", "F1", "F2", "Esc"}, m \in BOOLEAN }
    \cup { [code |-> "Char", ch |-> c, ctrl |-> m] : c \in Chars, m \in BOOLEAN }

\* a frame with its last byte changed
Tamper(d) == [d EXCEPT ![Len(d)] = (d[Len(d)] + 1) % 256]

\* datagrams that the session's own room did not send: short ones around
\* the classification boundary, bytes that are no UTF-8, a sealed plaintext
\* without separator, a sealed frame with a byte changed, a frame sealed
\* under another room's key, a presence frame with its routing tag left on
Forged(k) ==
    { <<>>, Const(PresenceLimit - 1, 97), Const(PresenceLimit, 97), <<255>>,
      encrypt(k, Const(NonceSize, 3), <<99>>),
      Tamper(encrypt(k, Const(NonceSize, 3), <<97, 124, 99>>)),
      encrypt(generate_aesgcm(KeyOther), Const(NonceSize, 3), <<97, 124, 99>>),
      PresenceFrame(k, Alice) }

\* what the relay forwards to session s: the payload of every datagram
\* sent under the routing tag of s, by s itself or by another session
Relayed(s) ==
    UNION { { RelayPayload(sent[t][i]) :
                i \in {j \in 1..Len(sent[t]) : RelayTag(sent[t][j]) = roombytes[s]} } :
            t \in Sessions }

Arrivals(s) == Relayed(s) \cup Forged(cipher[s])

(***************************************************************************)
(* History lines.                                                          *)
(***************************************************************************)
\* Line[username.red(), " joined the room".red()]
JoinLine(name) == [kind |-> "join", name |-> name, text |-> <<>>]

\* Line["[", username, "] ", message]
ChatLine(name, text) == [kind |-> "chat", name |-> name, text |-> text]

(***************************************************************************)
(* What the bound of the model measures: the bytes of PendingInput, the    *)
(* history lines, and for every message frame sent one plus the bytes of   *)
(* its text (a message frame is longer than the presence frame by nonce,   *)
(* separator, text and tag).                                               *)
(***************************************************************************)
RECURSIVE SentLoad(_, _)
SentLoad(frames, i) ==
    IF i > Len(frames) THEN 0
    ELSE Len(frames[i]) - Len(frames[1]) - NonceSize - TagSize
         + SentLoad(frames, i + 1)

Held(s) == Len(as_bytes(input[s])) + Len(history[s]) + SentLoad(sent[s], 2)

RECURSIVE LoadOf(_)
LoadOf(S) ==
    IF S = {} THEN 0
    ELSE LET s == CHOOSE x \in S : TRUE IN Held(s) + LoadOf(S \ {s})

Load == LoadOf(Sessions)

(***************************************************************************)
(* State after process start: no App exists yet.  decrypted records the    *)
(* byte strings a session has handed to utils::decrypt, entered counts the *)
(* key events that reached the KeyCode::Enter arm.                         *)
(***************************************************************************)
Init ==
    /\ pc = [s \in Sessions |-> "start"]
    /\ username = [s \in Sessions |-> <<>>]
    /\ roomkey = [s \in Sessions |-> <<>>]
    /\ roombytes = [s \in Sessions |-> <<>>]
    /\ cipher = [s \in Sessions |-> <<>>]
    /\ roomusers = [s \in Sessions |-> <<>>]
    /\ history = [s \in Sessions |-> <<>>]
    /\ socket = [s \in Sessions |-> 0]
    /\ input = [s \in Sessions |-> <<>>]
    /\ showkey = [s \in Sessions |-> FALSE]
    /\ showusers = [s \in Sessions |-> FALSE]
    /\ exit = [s \in Sessions |-> FALSE]
    /\ sent = [s \in Sessions |-> <<>>]
    /\ decrypted = [s \in Sessions |-> <<>>]
    /\ entered = [s \in Sessions |-> 0]

(***************************************************************************)
(* App::create_room and App::join_room.  The fields are built in order:    *)
(* the slice [..32] panics on a short key before the socket is bound, and  *)
(* bind(..).unwrap() panics when the port cannot be bound.                 *)
(***************************************************************************)
\* the last 32 bytes in place of the first
RoutingTagFromEnd(key) == Drop(as_bytes(key), Len(as_bytes(key)) - TagLen)

\* roomkey.as_bytes()[..32].to_vec()
RoutingTag(key) == Take(as_bytes(key), TagLen)

\* roomkey.as_bytes()[..32] is in range
KeyFits(key) == Len(as_bytes(key)) >= TagLen

\* what the constructor ends in: an App, or a panic at the slice or at bind
NewOutcome(key, bindOk) ==
    IF ~KeyFits(key) THEN "panic_slice"
    ELSE IF ~bindOk THEN "panic_bind"
    ELSE "app"

NewApp(s, name, key, port, bindOk) ==
    /\ pc[s] = "start"
    /\ IF NewOutcome(key, bindOk) = "app" THEN
          /\ pc' = [pc EXCEPT ![s] = "created"]
          /\ username' = [username EXCEPT ![s] = name]
          /\ roomkey' = [roomkey EXCEPT ![s] = key]
          /\ roombytes' = [roombytes EXCEPT ![s] = RoutingTag(key)]
          /\ cipher' = [cipher EXCEPT ![s] = generate_aesgcm(key)]
          /\ socket' = [socket EXCEPT ![s] = port]
       ELSE
          /\ pc' = [pc EXCEPT ![s] = NewOutcome(key, bindOk)]
          /\ UNCHANGED <<username, roomkey, roombytes, cipher, socket>>
    /\ UNCHANGED <<roomusers, history, input, showkey, showusers, exit, sent,
                   decrypted, entered>>

create_room(name, key, bindOk) == NewApp("creator", name, key, CreatorPort, bindOk)

join_room(name, key, port, bindOk) == NewApp("joiner", name, key, port, bindOk)

(***************************************************************************)
(* App::run up to the loop: connect(..).unwrap(), set_nonblocking(true)    *)
(* .unwrap(), then the send of the presence.  up tells whether the two     *)
(* socket calls returned Ok.                                               *)
(***************************************************************************)
\* the start of run with a second presence in place of none
RunStartTwice(s, up) ==
    /\ pc[s] = "created"
    /\ sent' = [sent EXCEPT ![s] =
                   @ \o <<PresenceFrame(roombytes[s], username[s]),
                          PresenceFrame(roombytes[s], username[s])>>]
    /\ pc' = [pc EXCEPT ![s] = "loop"]
    /\ UNCHANGED <<username, roomkey, roombytes, cipher, roomusers, history,
                   socket, input, showkey, showusers, exit, decrypted,
                   entered>>

RunStart(s, up) ==
    /\ pc[s] = "created"
    /\ IF up THEN
          /\ sent' = [sent EXCEPT ![s] =
                         Append(@, PresenceFrame(roombytes[s], username[s]))]
          /\ pc' = [pc EXCEPT ![s] = "loop"]
       ELSE
          /\ pc' = [pc EXCEPT ![s] = "panic_connect"]
          /\ UNCHANGED sent
    /\ UNCHANGED <<username, roomkey, roombytes, cipher, roomusers, history,
                   socket, input, showkey, showusers, exit, decrypted,
                   entered>>

(***************************************************************************)
(* while !self.exit                                                        *)
(***************************************************************************)
\* a loop that does not read the flag
LoopForever(s) == TRUE

LoopCond(s) == ~exit[s]

LoopCheck(s) ==
    /\ pc[s] = "loop"
    /\ pc' = [pc EXCEPT ![s] = IF LoopCond(s) THEN "recv" ELSE "exited"]
    /\ UNCHANGED <<username, roomkey, roombytes, cipher, roomusers, history,
                   socket, input, showkey, showusers, exit, sent, decrypted,
                   entered>>

(***************************************************************************)
(* The receive step of run: recv_from, then the two arms on the size.      *)
(***************************************************************************)
\* Err(WouldBlock): nothing to read
RecvWouldBlock(s) ==
    /\ pc[s] = "recv"
    /\ pc' = [pc EXCEPT ![s] = "draw"]
    /\ UNCHANGED <<username, roomkey, roombytes, cipher, roomusers, history,
                   socket, input, showkey, showusers, exit, sent, decrypted,
                   entered>>

\* an error of the socket taken for an empty socket: the tick goes on
RecvErrorIgnored(s) ==
    /\ pc[s] = "recv"
    /\ pc' = [pc EXCEPT ![s] = "draw"]
    /\ UNCHANGED <<username, roomkey, roombytes, cipher, roomusers, history,
                   socket, input, showkey, showusers, exit, sent, decrypted,
                   entered>>

\* Err(e): println and break, run returns Ok(())
RecvError(s) ==
    /\ pc[s] = "recv"
    /\ pc' = [pc EXCEPT ![s] = "exited"]
    /\ UNCHANGED <<username, roomkey, roombytes, cipher, roomusers, history,
                   socket, input, showkey, showusers, exit, sent, decrypted,
                   entered>>

\* the comparison with the boundary taken in
IsPresenceUpTo(buf) == Len(buf) <= PresenceLimit

\* if size < 12
IsPresence(buf) == Len(buf) < PresenceLimit

\* the arm for size < 12 without the push to roomusers
PresenceArmNoPush(s, buf) ==
    LET name == from_utf8(buf) IN
    /\ IF name.ok THEN
          /\ history' = [history EXCEPT ![s] = Append(@, JoinLine(name.str))]
          /\ pc' = [pc EXCEPT ![s] = "draw"]
       ELSE
          /\ pc' = [pc EXCEPT ![s] = "panic_recv"]
          /\ UNCHANGED history
    /\ UNCHANGED <<roomusers, decrypted>>

\* the arm for size < 12 pushing a name only when it is not yet listed
PresenceArmOnce(s, buf) ==
    LET name == from_utf8(buf) IN
    /\ IF name.ok THEN
          /\ roomusers' = [roomusers EXCEPT ![s] =
                   IF \E i \in 1..Len(@) : @[i] = name.str THEN @
                   ELSE Append(@, name.str)]
          /\ history' = [history EXCEPT ![s] = Append(@, JoinLine(name.str))]
          /\ pc' = [pc EXCEPT ![s] = "draw"]
       ELSE
          /\ pc' = [pc EXCEPT ![s] = "panic_recv"]
          /\ UNCHANGED <<roomusers, history>>
    /\ UNCHANGED decrypted

\* the arm for size < 12: from_utf8(..).unwrap(), push, append
PresenceArm(s, buf) ==
    LET name == from_utf8(buf) IN
    /\ IF name.ok THEN
          /\ roomusers' = [roomusers EXCEPT ![s] = Append(@, name.str)]
          /\ history' = [history EXCEPT ![s] = Append(@, JoinLine(name.str))]
          /\ pc' = [pc EXCEPT ![s] = "draw"]
       ELSE
          /\ pc' = [pc EXCEPT ![s] = "panic_recv"]
          /\ UNCHANGED <<roomusers, history>>
    /\ UNCHANGED decrypted

\* the arm for size >= 12 going back to recv_from until the socket is empty
MessageArmDraining(s, buf) ==
    LET dec == decrypt(cipher[s], buf)
        parts == split_once(dec.str)
    IN
    /\ decrypted' = [decrypted EXCEPT ![s] = Append(@, buf)]
    /\ IF dec.ok /\ parts.some THEN
          /\ history' = [history EXCEPT ![s] = Append(@, ChatLine(parts.left, parts.right))]
          /\ pc' = pc
       ELSE
          /\ pc' = [pc EXCEPT ![s] = "panic_recv"]
          /\ UNCHANGED history
    /\ UNCHANGED roomusers

\* the arm for size >= 12: decrypt(..).unwrap(), split_once('|').unwrap(), append
MessageArm(s, buf) ==
    LET dec == decrypt(cipher[s], buf)
        parts == split_once(dec.str)
    IN
    /\ decrypted' = [decrypted EXCEPT ![s] = Append(@, buf)]
    /\ IF dec.ok /\ parts.some THEN
          /\ history' = [history EXCEPT ![s] = Append(@, ChatLine(parts.left, parts.right))]
          /\ pc' = [pc EXCEPT ![s] = "draw"]
       ELSE
          /\ pc' = [pc EXCEPT ![s] = "panic_recv"]
          /\ UNCHANGED history
    /\ UNCHANGED roomusers

\* a receive step that answers a presence with the presence of its own
RecvDatagramAnnouncing(s, d) ==
    /\ pc[s] = "recv"
    /\ Load < MaxLoad
    /\ IF IsPresence(recv_from(d)) THEN PresenceArm(s, recv_from(d))
       ELSE MessageArm(s, recv_from(d))
    /\ sent' = [sent EXCEPT ![s] =
                   IF IsPresence(recv_from(d))
                   THEN Append(@, PresenceFrame(roombytes[s], username[s]))
                   ELSE @]
    /\ UNCHANGED <<username, roomkey, roombytes, cipher, socket, input,
                   showkey, showusers, exit, entered>>

\* Ok((size, _))
RecvDatagram(s, d) ==
    /\ pc[s] = "recv"
    /\ Load < MaxLoad
    /\ IF IsPresence(recv_from(d)) THEN PresenceArm(s, recv_from(d))
       ELSE MessageArm(s, recv_from(d))
    /\ UNCHANGED <<username, roomkey, roombytes, cipher, socket, input,
                   showkey, showusers, exit, sent, entered>>

(***************************************************************************)
(* terminal.draw(|f| self.draw(f))?  The widget reads the App and writes   *)
(* the frame buffer only.                                                  *)
(***************************************************************************)
\* a render that drops the oldest history line it does not show
DrawTrimming(s, ok) ==
    /\ pc[s] = "draw"
    /\ pc' = [pc EXCEPT ![s] = IF ok THEN "events" ELSE "failed"]
    /\ history' = [history EXCEPT ![s] = IF Len(@) > 1 THEN Tail(@) ELSE @]
    /\ UNCHANGED <<username, roomkey, roombytes, cipher, roomusers, socket,
                   input, showkey, showusers, exit, sent, decrypted, entered>>

Draw(s, ok) ==
    /\ pc[s] = "draw"
    /\ pc' = [pc EXCEPT ![s] = IF ok THEN "events" ELSE "failed"]
    /\ UNCHANGED <<username, roomkey, roombytes, cipher, roomusers, history,
                   socket, input, showkey, showusers, exit, sent, decrypted,
                   entered>>

(***************************************************************************)
(* App::handle_key_event.                                                  *)
(***************************************************************************)
\* modifiers.contains(CONTROL) and KeyCode::Char('c')
CtrlC(key) == key.ctrl /\ key.code = "Char" /\ key.ch = 99

\* the message frames a session has sent: all but the presence
MessagesSent(s) == IF sent[s] = <<>> THEN 0 ELSE Len(sent[s]) - 1

\* the removal of the first character in place of the last
PopFront(str) == IF str = <<>> THEN <<>> ELSE Tail(str)

\* String::pop
Pop(str) == IF str = <<>> THEN <<>> ELSE SubSeq(str, 1, Len(str) - 1)

\* the datagram of KeyCode::Enter
Submitted(s, nonce) ==
    MessageFrame(roombytes[s], cipher[s], nonce, username[s], input[s])

\* the Enter arm without input.clear()
SubmitKeepingInput(s, nonce) ==
    /\ sent' = [sent EXCEPT ![s] = Append(@, Submitted(s, nonce))]
    /\ UNCHANGED input

\* KeyCode::Enter: encrypt, frame, send, clear
Submit(s, nonce) ==
    /\ sent' = [sent EXCEPT ![s] = Append(@, Submitted(s, nonce))]
    /\ input' = [input EXCEPT ![s] = <<>>]

\* the keys the bound of the model lets the keyboard offer
Offered(s, key) == (~key.ctrl /\ key.code \in {"Enter", "Char"}) => Load < MaxLoad

\* the handler without the return that ends the Ctrl branch
handle_key_event_through(s, key, nonce) ==
    /\ exit' = [exit EXCEPT ![s] = IF CtrlC(key) THEN TRUE ELSE @]
    /\ showusers' = [showusers EXCEPT ![s] = IF key.code = "F1" THEN ~@ ELSE @]
    /\ showkey' = [showkey EXCEPT ![s] = IF key.code = "F2" THEN ~@ ELSE @]
    /\ IF key.code = "Enter" THEN Submit(s, nonce)
       ELSE /\ input' = [input EXCEPT ![s] =
                   IF key.code = "Backspace" THEN Pop(@)
                   ELSE IF key.code = "Char" THEN Append(@, key.ch)
                   ELSE @]
            /\ UNCHANGED sent

handle_key_event(s, key, nonce) ==
    IF key.ctrl THEN
        /\ exit' = [exit EXCEPT ![s] = IF CtrlC(key) THEN TRUE ELSE @]
        /\ UNCHANGED <<showusers, showkey, sent, input>>
    ELSE
        /\ showusers' = [showusers EXCEPT ![s] = IF key.code = "F1" THEN ~@ ELSE @]
        /\ showkey' = [showkey EXCEPT ![s] = IF key.code = "F2" THEN ~@ ELSE @]
        /\ IF key.code = "Enter" THEN Submit(s, nonce)
           ELSE /\ input' = [input EXCEPT ![s] =
                       IF key.code = "Backspace" THEN Pop(@)
                       ELSE IF key.code = "Char" THEN Append(@, key.ch)
                       ELSE @]
                /\ UNCHANGED sent
        /\ UNCHANGED exit

(***************************************************************************)
(* App::handle_events, called as handle_events().unwrap().                 *)
(***************************************************************************)
\* the key event takes the KeyCode::Enter arm
IsEnter(key) == ~key.ctrl /\ key.code = "Enter"

\* a key press whose Enter also writes the message into the own history
KeyPressEchoing(s, key, nonce) ==
    /\ pc[s] = "events"
    /\ Offered(s, key)
    /\ handle_key_event(s, key, nonce)
    /\ entered' = [entered EXCEPT ![s] = IF IsEnter(key) THEN @ + 1 ELSE @]
    /\ history' = [history EXCEPT ![s] =
                      IF IsEnter(key)
                      THEN Append(@, ChatLine(username[s], input[s]))
                      ELSE @]
    /\ pc' = [pc EXCEPT ![s] = "loop"]
    /\ UNCHANGED <<username, roomkey, roombytes, cipher, roomusers, socket,
                   decrypted>>

\* poll returned Ok(true) and read a key press
KeyPress(s, key, nonce) ==
    /\ pc[s] = "events"
    /\ Offered(s, key)
    /\ handle_key_event(s, key, nonce)
    /\ entered' = [entered EXCEPT ![s] = IF IsEnter(key) THEN @ + 1 ELSE @]
    /\ pc' = [pc EXCEPT ![s] = "loop"]
    /\ UNCHANGED <<username, roomkey, roombytes, cipher, roomusers, history,
                   socket, decrypted>>

\* poll timed out, or the event read is no key press
NoKeyPress(s) ==
    /\ pc[s] = "events"
    /\ pc' = [pc EXCEPT ![s] = "loop"]
    /\ UNCHANGED <<username, roomkey, roombytes, cipher, roomusers, history,
                   socket, input, showkey, showusers, exit, sent, decrypted,
                   entered>>

\* poll or read returned Err: the unwrap panics
EventError(s) ==
    /\ pc[s] = "events"
    /\ pc' = [pc EXCEPT ![s] = "panic_events"]
    /\ UNCHANGED <<username, roomkey, roombytes, cipher, roomusers, history,
                   socket, input, showkey, showusers, exit, sent, decrypted,
                   entered>>

(***************************************************************************)
(* One session by itself on a network that hands it its own frames back    *)
(* and forged ones: Spec.                                                  *)
(***************************************************************************)
Alone(s) == \A t \in Sessions \ {s} : pc[t] = "start"

Step(s) ==
    \/ \E up \in BOOLEAN : RunStart(s, up)
    \/ LoopCheck(s)
    \/ RecvWouldBlock(s)
    \/ RecvError(s)
    \/ pc[s] = "recv" /\ \E d \in Arrivals(s) : RecvDatagram(s, d)
    \/ \E ok \in BOOLEAN : Draw(s, ok)
    \/ \E key \in KeyEvents, nonce \in Nonces : KeyPress(s, key, nonce)
    \/ NoKeyPress(s)
    \/ EventError(s)

Next ==
    \/ \E name \in CreatorNames, key \in CreatorKeys, ok \in BOOLEAN :
          Alone("creator") /\ create_room(name, key, ok)
    \/ \E name \in JoinerNames, key \in JoinerKeys, ok \in BOOLEAN :
          Alone("joiner") /\ join_room(name, key, DefaultPort, ok)
    \/ \E s \in Sessions : Step(s)

Spec == Init /\ [][Next]_vars

(***************************************************************************)
(* A creator and a joiner on the relay, typing and submitting, with no     *)
(* forged traffic and no I/O failures: SpecRoom.                           *)
(***************************************************************************)
RoomKeyEvents == { k \in KeyEvents : ~k.ctrl /\ k.code \in {"Char", "Enter"} }

StepRoom(s) ==
    \/ RunStart(s, TRUE)
    \/ LoopCheck(s)
    \/ RecvWouldBlock(s)
    \/ pc[s] = "recv" /\ \E d \in Relayed(s) : RecvDatagram(s, d)
    \/ Draw(s, TRUE)
    \/ \E key \in RoomKeyEvents, nonce \in Nonces : KeyPress(s, key, nonce)
    \/ NoKeyPress(s)

NextRoom ==
    \/ \E name \in CreatorNames : create_room(name, KeyScenario, TRUE)
    \/ \E name \in JoinerNames, key \in {KeyScenario, KeyLong} :
          join_room(name, key, DefaultPort, TRUE)
    \/ \E s \in Sessions : StepRoom(s)

SpecRoom == Init /\ [][NextRoom]_vars

(***************************************************************************)
(* The lifecycle of the specification, read off the program counter.       *)
(***************************************************************************)
Initializing(s) == pc[s] \in {"start", "created"}

Active(s) == pc[s] \in {"loop", "recv", "draw", "events"}

Terminated(s) == ~Initializing(s) /\ ~Active(s)

\* the datagrams the receive step of s can be handed in this state
Incoming(s) == IF pc[s] = "recv" THEN Arrivals(s) ELSE {}

\* the session state a dropped datagram leaves alone
Kept(s) ==
    /\ roomusers'[s] = roomusers[s]
    /\ history'[s] = history[s]
    /\ input'[s] = input[s]

(***************************************************************************)
(* C1: a datagram classified as Message that fails decryption is dropped:  *)
(* participants, history and PendingInput stay as they are and the session *)
(* goes on with its tick, still Active.                                    *)
(***************************************************************************)
C1_DecryptFailureDropped ==
    [][\A s \in Sessions : \A d \in Incoming(s) :
          (/\ RecvDatagram(s, d)
           /\ ~IsPresence(recv_from(d))
           /\ ~decrypt(cipher[s], recv_from(d)).ok)
          => (Kept(s) /\ pc'[s] = "draw")]_vars

(***************************************************************************)
(* C2: a datagram malformed at the protocol level (under 12 bytes and not  *)
(* UTF-8, or decrypting to a plaintext without '|') is dropped with        *)
(* participants and history unchanged, and the session stays Active.       *)
(***************************************************************************)
Malformed(s, buf) ==
    \/ IsPresence(buf) /\ ~from_utf8(buf).ok
    \/ /\ ~IsPresence(buf)
       /\ decrypt(cipher[s], buf).ok
       /\ ~split_once(decrypt(cipher[s], buf).str).some

C2_MalformedDropped ==
    [][\A s \in Sessions : \A d \in Incoming(s) :
          (RecvDatagram(s, d) /\ Malformed(s, recv_from(d)))
          => (Kept(s) /\ pc'[s] = "draw")]_vars

(***************************************************************************)
(* C3: the receive step classifies by the length n of the whole datagram:  *)
(* for n < 12 it takes the presence arm (the name is the whole datagram)   *)
(* and hands nothing to decrypt; for n >= 12 it hands the whole datagram   *)
(* to decrypt and leaves the participants alone.                           *)
(***************************************************************************)
C3_ClassifiedByLength ==
    [][\A s \in Sessions : \A d \in Incoming(s) :
          RecvDatagram(s, d) =>
             LET buf == recv_from(d) IN
             IF Len(buf) < 12 THEN
                /\ decrypted'[s] = decrypted[s]
                /\ from_utf8(buf).ok =>
                      /\ roomusers'[s] = Append(roomusers[s], from_utf8(buf).str)
                      /\ history'[s] = Append(history[s], JoinLine(from_utf8(buf).str))
             ELSE
                /\ decrypted'[s] = Append(decrypted[s], buf)
                /\ roomusers'[s] = roomusers[s]
                /\ \/ history'[s] = history[s]
                   \/ /\ Len(history'[s]) = Len(history[s]) + 1
                      /\ history'[s][Len(history'[s])].kind = "chat"]_vars

\* a session that took an 11-byte datagram as a name and then handed a
\* 12-byte datagram to decrypt
C3_Witness ==
    \E s \in Sessions :
       /\ roomusers[s] # <<>>
       /\ roomusers[s][1] = Const(11, 97)
       /\ decrypted[s] = <<Const(12, 97)>>

(***************************************************************************)
(* C4: session A, with a 32-byte room key and the display name "alice",    *)
(* has sent its presence frame; when the relay delivers it to a session B  *)
(* of the same room key, B takes the 5 bytes as a presence, appends        *)
(* participant "alice" and a join line for "alice".                        *)
(***************************************************************************)
C4_PresenceJoins ==
    [][\A a \in Sessions, b \in Sessions :
          (/\ a # b
           /\ pc[b] = "recv"
           /\ sent[a] # <<>>
           /\ username[a] = Alice
           /\ Len(as_bytes(roomkey[a])) = 32
           /\ roomkey[b] = roomkey[a]
           /\ RelayPayload(sent[a][1]) \in Relayed(b)
           /\ RecvDatagram(b, RelayPayload(sent[a][1])))
          => (/\ Len(RelayPayload(sent[a][1])) = 5
              /\ decrypted'[b] = decrypted[b]
              /\ roomusers'[b] = Append(roomusers[b], Alice)
              /\ history'[b] = Append(history[b], JoinLine(Alice)))]_vars

\* the joiner of alice's room has taken her presence
C4_Witness ==
    /\ username["creator"] = Alice
    /\ roomkey["joiner"] = roomkey["creator"]
    /\ Len(roomkey["creator"]) = 32
    /\ roomusers["joiner"] = <<Alice>>
    /\ history["joiner"] = <<JoinLine(Alice)>>

(***************************************************************************)
(* C5 as claimed: for every display name N and text T, the frame that a    *)
(* session named N submits with PendingInput T, delivered to another       *)
(* session of the same room key, appends exactly one chat line with        *)
(* sender N and text T.                                                    *)
(***************************************************************************)
Texts == UNION { [1..n -> Chars] : n \in 0..MaxLoad }

\* the i-th datagram of a is the message frame of text T: it has the
\* length of tag, nonce, name|T and authentication tag, and their bytes
FrameOf(a, i, T) ==
    /\ Len(sent[a][i]) = 32 + 12 + Len(as_bytes(username[a] \o <<124>> \o T)) + 16
    /\ \E n \in Nonces :
          sent[a][i] = MessageFrame(roombytes[a], cipher[a], n, username[a], T)

\* b, another session of a's room key, is handed the i-th datagram of a
Delivered(a, b, i) ==
    /\ a # b
    /\ pc[b] = "recv"
    /\ roomkey[b] = roomkey[a]
    /\ RelayPayload(sent[a][i]) \in Relayed(b)
    /\ RecvDatagram(b, RelayPayload(sent[a][i]))

C5_EveryNameDelivered ==
    [][\A a \in Sessions, b \in Sessions : \A i \in 2..Len(sent[a]) :
          Delivered(a, b, i) =>
             \A T \in Texts :
                FrameOf(a, i, T) =>
                   /\ history'[b] = Append(history[b], ChatLine(username[a], T))
                   /\ roomusers'[b] = roomusers[b]]_vars

(***************************************************************************)
(* C5 as amended: the same for every display name N that holds no '|' and  *)
(* every frame that fits the 1024-byte receive buffer.                     *)
(***************************************************************************)
C5_PlainNameDelivered ==
    [][\A a \in Sessions, b \in Sessions : \A i \in 2..Len(sent[a]) :
          (/\ Delivered(a, b, i)
           /\ \A j \in 1..Len(username[a]) : username[a][j] # 124
           /\ Len(RelayPayload(sent[a][i])) <= 1024) =>
             \A T \in Texts :
                FrameOf(a, i, T) =>
                   /\ history'[b] = Append(history[b], ChatLine(username[a], T))
                   /\ roomusers'[b] = roomusers[b]]_vars

\* the joiner shows alice's "c", and a line whose text holds a '|'
C5_Witness ==
    /\ username["creator"] = Alice
    /\ roomkey["joiner"] = roomkey["creator"]
    /\ \E i \in 2..Len(sent["creator"]) :
          sent["creator"][i] \in
             { MessageFrame(roombytes["creator"], cipher["creator"], n, Alice, <<99>>) :
                 n \in Nonces }
    /\ \E i \in 1..Len(history["joiner"]) :
          history["joiner"][i] = ChatLine(Alice, <<99>>)

(***************************************************************************)
(* C6 as claimed: for every room key of fewer than 32 bytes, create_room   *)
(* and join_room end in an InvalidKeyLength error value: no session, no    *)
(* socket bound, no presence frame sent.                                   *)
(***************************************************************************)
C6_ShortKeyIsAnError ==
    [][\A name \in CreatorNames \cup JoinerNames :
       \A key \in CreatorKeys \cup JoinerKeys : \A ok \in BOOLEAN :
          \A s \in Sessions :
             (/\ Len(as_bytes(key)) < 32
              /\ IF s = "creator" THEN create_room(name, key, ok)
                 ELSE join_room(name, key, DefaultPort, ok))
             => (/\ pc'[s] = "error_InvalidKeyLength"
                 /\ socket'[s] = 0
                 /\ sent'[s] = <<>>)]_vars

(***************************************************************************)
(* C7: every datagram a session has sent begins with its routing tag, the  *)
(* first 32 bytes of its room key, which is fixed once the session is      *)
(* created; the bytes of the room key after the 32nd play no part.         *)
(***************************************************************************)
C7_SentBeginsWithTag ==
    /\ [](\A s \in Sessions : \A i \in 1..Len(sent[s]) :
             /\ roombytes[s] = SubSeq(as_bytes(roomkey[s]), 1, 32)
             /\ SubSeq(sent[s][i], 1, 32) = roombytes[s])
    /\ [][\A s \in Sessions :
             pc[s] # "start" =>
                /\ roombytes'[s] = roombytes[s]
                /\ roomkey'[s] = roomkey[s]]_vars

\* a session with a 33-byte room key has sent its presence and a message
C7_Witness ==
    \E s \in Sessions : Len(roomkey[s]) = 33 /\ Len(sent[s]) = 2

(***************************************************************************)
(* C8: an Enter key event without Ctrl sends exactly one message frame,    *)
(* whose plaintext is displayName, '|', PendingInput (so "name|" when the  *)
(* input is empty), and leaves PendingInput empty.                         *)
(***************************************************************************)
EnterKey == [code |-> "Enter", ch |-> 0, ctrl |-> FALSE]

C8_EnterSendsOneFrame ==
    [][\A s \in Sessions : \A n \in Nonces :
          KeyPress(s, EnterKey, n) =>
             /\ Len(sent'[s]) = Len(sent[s]) + 1
             /\ SubSeq(sent'[s], 1, Len(sent[s])) = sent[s]
             /\ \A t \in Sessions \ {s} : sent'[t] = sent[t]
             /\ LET frame == sent'[s][Len(sent'[s])]
                    opened == decrypt(cipher[s], SubSeq(frame, 33, Len(frame)))
                IN  /\ opened.ok
                    /\ opened.str = username[s] \o <<124>> \o input[s]
             /\ input'[s] = <<>>]_vars

\* a session has submitted an empty input and one of two characters
C8_Witness ==
    \E s \in Sessions :
       /\ Len(sent[s]) = 2
       /\ input[s] = <<>>
       /\ pc[s] = "loop"
       /\ decrypt(cipher[s], SubSeq(sent[s][2], 33, Len(sent[s][2]))).str
             = username[s] \o <<124>>

(***************************************************************************)
(* C9: a key event for a printable character c without Ctrl appends c to   *)
(* PendingInput; Backspace removes its last character and leaves an empty  *)
(* input empty; neither sends a datagram or changes participants or        *)
(* history.                                                                *)
(***************************************************************************)
CharKey(c) == [code |-> "Char", ch |-> c, ctrl |-> FALSE]

BackspaceKey == [code |-> "Backspace", ch |-> 0, ctrl |-> FALSE]

Quiet == sent' = sent /\ roomusers' = roomusers /\ history' = history

C9_TypingEditsInput ==
    [][\A s \in Sessions : \A n \in Nonces :
          /\ \A c \in Chars :
                KeyPress(s, CharKey(c), n) =>
                   input'[s] = input[s] \o <<c>> /\ Quiet
          /\ KeyPress(s, BackspaceKey, n) =>
                /\ input'[s] = IF input[s] = <<>> THEN <<>>
                               ELSE SubSeq(input[s], 1, Len(input[s]) - 1)
                /\ Quiet]_vars

\* a session whose PendingInput holds two characters after a key event
C9_Witness ==
    \E s \in Sessions : pc[s] = "loop" /\ input[s] = <<124, 99>>

(***************************************************************************)
(* C10: handling Ctrl+C sets the termination flag in that tick, and a      *)
(* session whose flag is set does nothing but leave the loop: no receive,  *)
(* render or send, no change of participants, history or PendingInput, no  *)
(* further tick.                                                           *)
(***************************************************************************)
CtrlCKey == [code |-> "Char", ch |-> 99, ctrl |-> TRUE]

C10_CtrlCTerminates ==
    /\ [](\A s \in Sessions :
             exit[s] => \/ pc[s] = "exited"
                        \/ pc[s] = "loop" /\ ENABLED LoopCheck(s))
    /\ [][\A s \in Sessions :
             /\ \A n \in Nonces :
                   (Active(s) /\ KeyPress(s, CtrlCKey, n)) =>
                      exit'[s] /\ Kept(s) /\ sent'[s] = sent[s]
             /\ exit[s] =>
                   /\ exit'[s]
                   /\ Kept(s)
                   /\ sent'[s] = sent[s]
                   /\ pc'[s] \in {pc[s], "exited"}]_vars

\* a session has left the loop on its flag, with the state it had
C10_Witness ==
    \E s \in Sessions : exit[s] /\ pc[s] = "exited" /\ history[s] # <<>>

(***************************************************************************)
(* C11: the lifecycle state of a session only moves Initializing ->        *)
(* Active -> Terminated: it never moves backwards, Terminated is           *)
(* absorbing, and a session leaves Active only with its termination flag   *)
(* set or on a socket I/O error of the receive call.                       *)
(***************************************************************************)
Stage(s) == IF Initializing(s) THEN 0 ELSE IF Active(s) THEN 1 ELSE 2

C11_LifecycleForward ==
    [][\A s \in Sessions :
          /\ Stage(s)' >= Stage(s)
          /\ Terminated(s) => pc'[s] = pc[s]
          /\ (Active(s) /\ Terminated(s)') => (exit[s] \/ RecvError(s))]_vars

(***************************************************************************)
(* C12: a session sends exactly one presence frame in its lifetime.  It is *)
(* sent by the step that leaves Initializing, once the socket calls have   *)
(* returned and before anything is received, it is the first datagram the  *)
(* session sends, and no step of an Active session sends another.          *)
(***************************************************************************)
OwnPresence(s) == PresenceFrame(roombytes[s], username[s])

Presences(s) ==
    Cardinality({i \in 1..Len(sent[s]) : sent[s][i] = OwnPresence(s)})

NeverActive(s) ==
    Initializing(s) \/ pc[s] \in {"panic_slice", "panic_bind", "panic_connect"}

C12_OnePresence ==
    /\ [](\A s \in Sessions :
             IF NeverActive(s)
             THEN sent[s] = <<>> /\ history[s] = <<>> /\ decrypted[s] = <<>>
             ELSE Presences(s) = 1 /\ sent[s][1] = OwnPresence(s))
    /\ [][\A s \in Sessions :
             /\ (Initializing(s) /\ sent'[s] # sent[s]) =>
                   /\ RunStart(s, TRUE)
                   /\ sent'[s] = <<OwnPresence(s)>>
                   /\ pc'[s] = "loop"
             /\ Active(s) => Presences(s)' = Presences(s)]_vars

\* a session in its receive step that has sent its presence and two messages
C12_Witness ==
    \E s \in Sessions :
       /\ pc[s] = "recv"
       /\ Len(sent[s]) = 3
       /\ Presences(s) = 1
       /\ sent[s][1] = OwnPresence(s)

(***************************************************************************)
(* C13: when the receive call reports would-block, no field of the session *)
(* changes and the tick goes on to the render and from there to the input  *)
(* poll; on any other socket error the session is Terminated by that step, *)
(* and a Terminated session neither renders nor handles input.             *)
(***************************************************************************)
\* every field of the App of s, and what it has sent, stays as it is
Untouched(s) ==
    /\ username'[s] = username[s]
    /\ roomkey'[s] = roomkey[s]
    /\ roombytes'[s] = roombytes[s]
    /\ cipher'[s] = cipher[s]
    /\ roomusers'[s] = roomusers[s]
    /\ history'[s] = history[s]
    /\ socket'[s] = socket[s]
    /\ input'[s] = input[s]
    /\ showkey'[s] = showkey[s]
    /\ showusers'[s] = showusers[s]
    /\ exit'[s] = exit[s]
    /\ sent'[s] = sent[s]

C13_ReceiveErrors ==
    /\ [](\A s \in Sessions :
             /\ pc[s] = "draw" => ENABLED Draw(s, TRUE)
             /\ pc[s] = "events" => ENABLED NoKeyPress(s)
             /\ Terminated(s) =>
                   /\ \A ok \in BOOLEAN : ~ENABLED Draw(s, ok)
                   /\ ~ENABLED NoKeyPress(s)
                   /\ ~ENABLED EventError(s)
                   /\ \A key \in KeyEvents :
                         ~ENABLED KeyPress(s, key, Const(NonceSize, 1)))
    /\ [][\A s \in Sessions :
             /\ RecvWouldBlock(s) => Untouched(s) /\ pc'[s] = "draw"
             /\ (pc[s] = "draw" /\ pc'[s] # "draw") =>
                   pc'[s] \in {"events", "failed"}
             /\ RecvError(s) => Untouched(s) /\ Terminated(s)'
             /\ Terminated(s) => Untouched(s) /\ pc'[s] = pc[s]]_vars

\* a session that went through a whole tick on an empty socket, submitted
\* a message, and was then ended by a socket error
C13_Witness ==
    \E s \in Sessions :
       /\ pc[s] = "exited"
       /\ ~exit[s]
       /\ history[s] = <<>>
       /\ decrypted[s] = <<>>
       /\ Len(sent[s]) = 2

(***************************************************************************)
(* C14: the participant list and the history are append-only: across every *)
(* step the old value of each is a prefix of the new one, so no entry is   *)
(* removed, reordered or modified.                                         *)
(***************************************************************************)
IsPrefix(a, b) == Len(a) <= Len(b) /\ SubSeq(b, 1, Len(a)) = a

C14_AppendOnly ==
    [][\A s \in Sessions :
          /\ IsPrefix(roomusers[s], roomusers'[s])
          /\ IsPrefix(history[s], history'[s])]_vars

\* a session that holds a join line and a chat line and has since rendered
\* and polled its keyboard
C14_Witness ==
    \E s \in Sessions :
       /\ pc[s] = "loop"
       /\ Len(roomusers[s]) = 1
       /\ Len(history[s]) = 2
       /\ history[s][1].kind = "join"
       /\ history[s][2].kind = "chat"

(***************************************************************************)
(* C15: within a tick an Active session makes its receive attempt, then    *)
(* renders, then polls the keyboard, in that order and once each: a        *)
(* datagram is consumed only by the receive step and one at a time, a key  *)
(* event is handled only by the poll step and one at a time, and the       *)
(* render changes no field of the session.                                 *)
(***************************************************************************)
NextInTick(at) ==
    CASE at = "loop" -> "recv"
      [] at = "recv" -> "draw"
      [] at = "draw" -> "events"
      [] at = "events" -> "loop"
      [] OTHER -> at

C15_TickOrder ==
    [][\A s \in Sessions :
          /\ (Active(s) /\ Active(s)' /\ pc'[s] # pc[s]) =>
                pc'[s] = NextInTick(pc[s])
          /\ (Active(s) /\ pc'[s] = pc[s]) => Untouched(s)
          /\ (\/ roomusers'[s] # roomusers[s]
              \/ history'[s] # history[s]
              \/ decrypted'[s] # decrypted[s]) =>
                /\ pc[s] = "recv"
                /\ pc'[s] # "recv"
                /\ Len(history'[s]) <= Len(history[s]) + 1
                /\ Len(roomusers'[s]) <= Len(roomusers[s]) + 1
                /\ Len(decrypted'[s]) <= Len(decrypted[s]) + 1
          /\ (Active(s) /\ (\/ input'[s] # input[s]
                             \/ showkey'[s] # showkey[s]
                             \/ showusers'[s] # showusers[s]
                             \/ exit'[s] # exit[s]
                             \/ sent'[s] # sent[s])) =>
                /\ pc[s] = "events"
                /\ pc'[s] = "loop"
                /\ \E key \in KeyEvents, n \in Nonces : KeyPress(s, key, n)
          /\ \A ok \in BOOLEAN : Draw(s, ok) => Untouched(s)
          /\ pc[s] \in {"loop", "draw"} => Untouched(s)]_vars

\* a session back at the head of the loop after ticks that consumed a
\* presence and a message and handled key events
C15_Witness ==
    \E s \in Sessions :
       /\ pc[s] = "loop"
       /\ ~exit[s]
       /\ Len(roomusers[s]) = 1
       /\ Len(decrypted[s]) = 1
       /\ Len(history[s]) = 2
       /\ entered[s] = 1

(***************************************************************************)
(* C16: in every reachable state a session has as many participants as    *)
(* its history has join entries.  A datagram handled as Presence (under 12 *)
(* bytes, a UTF-8 name) appends one participant and one join entry with    *)
(* that name, also when the name is already listed; a datagram handled as  *)
(* Message leaves the participant list as it is.                           *)
(***************************************************************************)
JoinsOf(lines) == { i \in 1..Len(lines) : lines[i].kind = "join" }

C16_ParticipantsAreJoins ==
    /\ [](\A s \in Sessions :
             Len(roomusers[s]) = Cardinality(JoinsOf(history[s])))
    /\ [][\A s \in Sessions : \A d \in Incoming(s) :
             RecvDatagram(s, d) =>
                LET buf == recv_from(d) IN
                IF Len(buf) >= PresenceLimit
                THEN roomusers'[s] = roomusers[s]
                ELSE IF valid_utf8(buf)
                THEN /\ roomusers'[s] = Append(roomusers[s], decode_utf8(buf))
                     /\ history'[s] =
                           Append(history[s], JoinLine(decode_utf8(buf)))
                ELSE /\ roomusers'[s] = roomusers[s]
                     /\ history'[s] = history[s]]_vars

\* a session that was handed the presence of the same name twice
C16_Witness ==
    \E s \in Sessions :
       /\ Len(roomusers[s]) = 2
       /\ roomusers[s][1] = roomusers[s][2]
       /\ Len(history[s]) = 2
       /\ history[s][2] = JoinLine(roomusers[s][1])

(***************************************************************************)
(* C17: submitting with Enter leaves the history and the participant list  *)
(* of the sender as they are; a history changes only in a receive step     *)
(* that was handed a datagram by the relay, so a session shows its own     *)
(* message only once the relay has delivered that datagram back to it.     *)
(***************************************************************************)
C17_EnterKeepsOwnHistory ==
    [][\A s \in Sessions :
          /\ \A n \in Nonces :
                (entered'[s] # entered[s] /\ KeyPress(s, EnterKey, n)) =>
                   /\ history'[s] = history[s]
                   /\ roomusers'[s] = roomusers[s]
          /\ (history'[s] # history[s] \/ roomusers'[s] # roomusers[s]) =>
                /\ pc[s] = "recv"
                /\ \E d \in Relayed(s) : RecvDatagram(s, d)]_vars

\* a sender whose message the relay has delivered to the other session and
\* not back to itself: the other history shows it, its own does not
C17_Witness ==
    \E a \in Sessions : \E b \in Sessions \ {a} :
       /\ entered[a] = 1
       /\ \A i \in 1..Len(history[a]) : history[a][i].kind = "join"
       /\ \E i \in 1..Len(history[b]) :
             history[b][i].kind = "chat" /\ history[b][i].name = username[a]

(***************************************************************************)
(* C18: a key event with the Ctrl modifier that is not Ctrl+C (Ctrl+Enter, *)
(* Ctrl+Backspace, Ctrl+F1, Ctrl with another character) changes no field  *)
(* of the session: PendingInput, participants, history, the two            *)
(* presentation flags and the termination flag stay as they are and no     *)
(* datagram is sent.  Stated as: a step of the poll either changes no      *)
(* field or is the handling of none of these keys.                         *)
(***************************************************************************)
CtrlOtherKeys == { key \in KeyEvents : key.ctrl /\ key # CtrlCKey }

C18_CtrlOtherKeysInert ==
    [][\A s \in Sessions :
          (pc[s] = "events" /\ pc'[s] = "loop") =>
             \/ Untouched(s) /\ entered'[s] = entered[s]
             \/ \A key \in CtrlOtherKeys : \A n \in Nonces :
                   ~KeyPress(s, key, n)]_vars

\* the state Ctrl+Enter, Ctrl+Backspace and Ctrl+F1 leave a session in that
\* had text pending, one flag set and a message sent: all of it still there
C18_Witness ==
    \E s \in Sessions :
       /\ pc[s] = "loop"
       /\ ~exit[s]
       /\ input[s] = <<124>>
       /\ showusers[s] /\ ~showkey[s]
       /\ Len(sent[s]) = 2
       /\ \A key \in CtrlOtherKeys : Offered(s, key)

(***************************************************************************)
(* C19: an Active session sends only by handling Enter.  In every          *)
(* reachable state the number of message frames a session has sent equals  *)
(* the number of Enter key events it has handled; a step that adds to what *)
(* an Active session has sent is the handling of one Enter and adds one    *)
(* frame; the receive step and the render send nothing and leave           *)
(* PendingInput as it is.                                                  *)
(***************************************************************************)
C19_SendsOnlyOnEnter ==
    /\ [](\A s \in Sessions : MessagesSent(s) = entered[s])
    /\ [][\A s \in Sessions :
             /\ (Active(s) /\ sent'[s] # sent[s]) =>
                   /\ pc[s] = "events"
                   /\ Len(sent'[s]) = Len(sent[s]) + 1
                   /\ SubSeq(sent'[s], 1, Len(sent[s])) = sent[s]
                   /\ entered'[s] = entered[s] + 1
                   /\ \E n \in Nonces : KeyPress(s, EnterKey, n)
             /\ (Active(s) /\ entered'[s] = entered[s]) => sent'[s] = sent[s]
             /\ pc[s] \in {"recv", "draw"} =>
                   sent'[s] = sent[s] /\ input'[s] = input[s]]_vars

\* a session that has gone through receive steps and renders, typed a
\* character and handled Enter twice
C19_Witness ==
    \E s \in Sessions :
       /\ pc[s] = "loop"
       /\ entered[s] = 2
       /\ MessagesSent(s) = 2
       /\ input[s] = <<>>
       /\ Len(sent[s][3]) > Len(sent[s][2])

====
